---- MODULE Spec2Model ----
(***************************************************************************)
(* Model of the scenario evaluation of backend/server.py                   *)
(* (analyze_adjustment_scenarios, POST /api/analysis/adjustment-scenarios).*)
(*                                                                         *)
(* Numbers.  The code computes on Python floats; the model computes the    *)
(* same expressions exactly, in fixed point:                               *)
(*   - a price, strike or premium is an integer number of ticks,           *)
(*     1 tick = 1/20 dollar (request values are multiples of 10 ticks,     *)
(*     i.e. of half a dollar, so that current_price * (1 +/- k/10) is a    *)
(*     whole number of ticks);                                             *)
(*   - a scenario_value is an integer number of tenths;                    *)
(*   - a payoff is an integer number of mills, 1 mill = 1/1000 dollar,     *)
(*     so one tick of a 100-share contract is 100 * 50 mills;              *)
(*   - a scanned candidate price (an element of Python's range) is an      *)
(*     integer number of dollars.                                          *)
(* An optional field (Optional[float] = None) is a sequence of length at   *)
(* most one: <<>> is None, <<v>> is the supplied value v.                  *)
(***************************************************************************)
EXTENDS Integers, Sequences, FiniteSets, TLC

\* req, resp: the request being served and its answer;
\* strategies, watchlist: the documents of the two collections, oldest first;
\* inserted: the strategies inserted so far (an _id is never given twice)
VARIABLES req, resp, strategies, watchlist, inserted

vars == <<req, resp, strategies, watchlist, inserted>>

(***************************************************************************)
(* Bounds of the checked inputs.                                           *)
(***************************************************************************)
\* longest leg list of a position request
MaxLegs == 2
\* largest current_price, in half dollars
MaxPriceH == 11
\* largest supplied scenario_value, in tenths
MaxValue10 == 2

\* stored strategies, and quoted prices around the multiples of 2.50 up to
\* 2.50 * MaxQuoteH
MaxStrategies == 1
MaxQuoteH == 3

(***************************************************************************)
(* Arithmetic helpers: Python's abs, int (truncation toward zero),         *)
(* round(x, 2) (to the nearest cent, ties to even), max and min.           *)
(***************************************************************************)
Abs(x) == IF x < 0 THEN 0 - x ELSE x

\* int(n / d) for d > 0: truncation toward zero
Trunc(n, d) == IF n >= 0 THEN n \div d ELSE 0 - ((0 - n) \div d)

\* round(x, 2) of an amount in mills: the nearest multiple of 10 mills
Round2(m) ==
    LET r == m % 10
        b == m - r
    IN  IF r < 5 THEN b
        ELSE IF r > 5 THEN b + 10
        ELSE IF (b \div 10) % 2 = 0 THEN b ELSE b + 10

\* round(n / d) for d > 0: the nearest integer, ties to the even one
RoundNearest(n, d) ==
    LET q == n \div d
        r == n % d
    IN  IF 2 * r < d THEN q
        ELSE IF 2 * r > d THEN q + 1
        ELSE IF q % 2 = 0 THEN q ELSE q + 1

SetMax(S) == CHOOSE x \in S : \A y \in S : x >= y

SetMin(S) == CHOOSE x \in S : \A y \in S : x <= y

(***************************************************************************)
(* calculate_payoff (server.py 358-370).                                   *)
(***************************************************************************)
\* Intrinsic without the floor at 0
IntrinsicNoFloor(price, opt) ==
    IF opt.type = "call" THEN price - opt.strike ELSE opt.strike - price

\* max(0, price - strike) for a call, max(0, strike - price) otherwise
Intrinsic(price, opt) ==
    IF opt.type = "call"
    THEN (IF price - opt.strike > 0 THEN price - opt.strike ELSE 0)
    ELSE (IF opt.strike - price > 0 THEN opt.strike - price ELSE 0)

\* LegPnl with the sold branch lost: every leg is valued as a bought one
LegPnlAllBought(price, opt) ==
    (Intrinsic(price, opt) - opt.premium) * opt.quantity * 100 * 50

\* one iteration's addend, in mills: ticks * quantity * 100 shares * 50
LegPnl(price, opt) ==
    IF opt.action = "buy"
    THEN (Intrinsic(price, opt) - opt.premium) * opt.quantity * 100 * 50
    ELSE (opt.premium - Intrinsic(price, opt)) * opt.quantity * 100 * 50

RECURSIVE PayoffLoop(_, _, _, _)
\* the for loop over opts, total being the accumulator
PayoffLoop(price, opts, i, total) ==
    IF i > Len(opts) THEN total
    ELSE PayoffLoop(price, opts, i + 1, total + LegPnl(price, opts[i]))

calculate_payoff(price, opts) == PayoffLoop(price, opts, 1, 0)

(***************************************************************************)
(* Scenario price (server.py 375-379).                                     *)
(***************************************************************************)
\* (scenario.scenario_value or 0.1), in tenths: None and 0 are both falsy
ValueOrDefault(scenario_value) ==
    IF scenario_value = <<>> \/ scenario_value[1] = 0 THEN 1
    ELSE scenario_value[1]

\* ScenarioPrice with time_decay handled as a price move down
ScenarioPriceDecayMoves(current_price, scenario_type, scenario_value) ==
    IF scenario_type = "price_up"
    THEN (current_price * (10 + ValueOrDefault(scenario_value))) \div 10
    ELSE IF scenario_type \in {"price_down", "time_decay"}
    THEN (current_price * (10 - ValueOrDefault(scenario_value))) \div 10
    ELSE current_price

\* in ticks; exact because current_price is a multiple of 10 ticks
ScenarioPrice(current_price, scenario_type, scenario_value) ==
    IF scenario_type = "price_up"
    THEN (current_price * (10 + ValueOrDefault(scenario_value))) \div 10
    ELSE IF scenario_type = "price_down"
    THEN (current_price * (10 - ValueOrDefault(scenario_value))) \div 10
    ELSE current_price

(***************************************************************************)
(* Extremum scan (server.py 384-385).                                      *)
(***************************************************************************)
\* ScanRange with the upper end included
ScanRangeInclusive(current_price) ==
    Trunc(current_price, 40) .. Trunc(3 * current_price, 40)

\* range(int(current_price * 0.5), int(current_price * 1.5)), in dollars
ScanRange(current_price) ==
    Trunc(current_price, 40) .. (Trunc(3 * current_price, 40) - 1)

\* the payoffs the two generators yield (a scanned p dollars is 20 p ticks)
ScanPayoffs(current_price, opts) ==
    {calculate_payoff(20 * p, opts) : p \in ScanRange(current_price)}

(***************************************************************************)
(* Recommendations (server.py 388-463).  A recommendation keeps its type,  *)
(* its urgency and, for a spread adjustment, the two strikes (dollars) its *)
(* action text suggests.                                                   *)
(***************************************************************************)
Rec(type, urgency, strikes) ==
    [type |-> type, urgency |-> urgency, strikes |-> strikes]

\* LossDivisor without the guard against max_loss = 0
LossDivisorUnguarded(max_loss) == Abs(max_loss)

\* abs(max_loss) if max_loss != 0 else 1, in mills (1 dollar = 1000 mills)
LossDivisor(max_loss) == IF max_loss # 0 THEN Abs(max_loss) ELSE 1000

\* loss_percent > pct, loss_percent = abs(current_pnl) / divisor * 100
LossPercentOver(current_pnl, max_loss, pct) ==
    Abs(current_pnl) * 100 > pct * LossDivisor(max_loss)

\* LossRecs with the roll test not chained to the close test
LossRecsBoth(current_pnl, max_loss) ==
    (IF LossPercentOver(current_pnl, max_loss, 50)
     THEN <<Rec("close", "high", <<>>)>>
     ELSE <<>>)
    \o (IF LossPercentOver(current_pnl, max_loss, 25)
        THEN <<Rec("roll", "medium", <<>>)>>
        ELSE <<>>)

\* server.py 392-407
LossRecs(current_pnl, max_loss) ==
    IF LossPercentOver(current_pnl, max_loss, 50)
    THEN <<Rec("close", "high", <<>>)>>
    ELSE IF LossPercentOver(current_pnl, max_loss, 25)
    THEN <<Rec("roll", "medium", <<>>)>>
    ELSE <<>>

\* [o for o in options if o.type == t]
LegsOfType(opts, t) == SelectSeq(opts, LAMBDA o : o.type = t)

Strikes(legs) == {legs[i].strike : i \in 1..Len(legs)}

\* CallSpreadRecs comparing with the lower call strike
CallSpreadRecsAboveLower(current_price, calls, puts) ==
    IF Len(calls) = 2 /\ Len(puts) = 0 /\ current_price > SetMin(Strikes(calls))
    THEN <<Rec("adjust", "medium",
               <<Trunc(current_price, 20), Trunc(current_price, 20) + 5>>)>>
    ELSE <<>>

\* server.py 413-420
CallSpreadRecs(current_price, calls, puts) ==
    IF Len(calls) = 2 /\ Len(puts) = 0 /\ current_price > SetMax(Strikes(calls))
    THEN <<Rec("adjust", "medium",
               <<Trunc(current_price, 20), Trunc(current_price, 20) + 5>>)>>
    ELSE <<>>

\* PutSpreadRecs suggesting round(current_price) in place of int(current_price)
PutSpreadRecsRounding(current_price, calls, puts) ==
    IF Len(puts) = 2 /\ Len(calls) = 0 /\ current_price < SetMin(Strikes(puts))
    THEN <<Rec("adjust", "medium",
               <<RoundNearest(current_price, 20) - 5,
                 RoundNearest(current_price, 20)>>)>>
    ELSE <<>>

\* server.py 422-429
PutSpreadRecs(current_price, calls, puts) ==
    IF Len(puts) = 2 /\ Len(calls) = 0 /\ current_price < SetMin(Strikes(puts))
    THEN <<Rec("adjust", "medium",
               <<Trunc(current_price, 20) - 5, Trunc(current_price, 20)>>)>>
    ELSE <<>>

\* IronCondorRecs only when the put strikes lie below the call strikes
IronCondorRecsOrderedStrikes(calls, puts) ==
    IF /\ Len(calls) = 2 /\ Len(puts) = 2
       /\ SetMax(Strikes(puts)) < SetMin(Strikes(calls))
    THEN <<Rec("adjust", "medium", <<>>)>>
    ELSE <<>>

\* server.py 431-437
IronCondorRecs(calls, puts) ==
    IF Len(calls) = 2 /\ Len(puts) = 2
    THEN <<Rec("adjust", "medium", <<>>)>>
    ELSE <<>>

\* server.py 410-437
ShapeRecs(current_price, opts) ==
    LET calls == LegsOfType(opts, "call")
        puts == LegsOfType(opts, "put")
    IN  CallSpreadRecs(current_price, calls, puts)
        \o PutSpreadRecs(current_price, calls, puts)
        \o IronCondorRecs(calls, puts)

\* the profit division without its guard
ProfitDividesUnguarded(max_profit) == TRUE

\* the guard of the profit division: max_profit > 0
ProfitDivides(max_profit) == max_profit > 0

\* profit_percent > pct, with
\* profit_percent = current_pnl / max_profit * 100 if max_profit > 0 else 0
ProfitPercentOver(current_pnl, max_profit, pct) ==
    IF ProfitDivides(max_profit)
    THEN current_pnl * 100 > pct * max_profit
    ELSE 0 > pct

\* server.py 441-455
ProfitRecs(current_pnl, max_profit) ==
    IF ProfitPercentOver(current_pnl, max_profit, 75)
    THEN <<Rec("take_profit", "low", <<>>)>>
    ELSE IF ProfitPercentOver(current_pnl, max_profit, 50)
    THEN <<Rec("partial_close", "low", <<>>)>>
    ELSE <<>>

\* the time-decay entry at medium urgency
InfoRecMedium == Rec("info", "medium", <<>>)

\* server.py 458-463
InfoRec == Rec("info", "low", <<>>)

\* Recommendations with the shape rules evaluated before the loss rule
RecommendationsShapeFirst(current_price, opts, current_pnl, max_profit, max_loss) ==
    (IF current_pnl < 0
     THEN ShapeRecs(current_price, opts) \o LossRecs(current_pnl, max_loss)
     ELSE <<>>)
    \o (IF current_pnl > 0 THEN ProfitRecs(current_pnl, max_profit) ELSE <<>>)
    \o <<InfoRec>>

\* server.py 388-463
Recommendations(current_price, opts, current_pnl, max_profit, max_loss) ==
    (IF current_pnl < 0
     THEN LossRecs(current_pnl, max_loss) \o ShapeRecs(current_price, opts)
     ELSE <<>>)
    \o (IF current_pnl > 0 THEN ProfitRecs(current_pnl, max_profit) ELSE <<>>)
    \o <<InfoRec>>

\* Python's / raises ZeroDivisionError on a zero divisor (server.py 392, 441)
ZeroDivision(current_pnl, max_profit, max_loss) ==
    \/ current_pnl < 0 /\ LossDivisor(max_loss) = 0
    \/ current_pnl > 0 /\ ProfitDivides(max_profit) /\ max_profit = 0

(***************************************************************************)
(* The handler (server.py 352-474).  max() and min() of an empty generator *)
(* raise ValueError and a division by zero raises ZeroDivisionError;       *)
(* nothing catches either: the request ends in an error and no report.     *)
(***************************************************************************)
analyze_adjustment_scenarios(scenario) ==
    LET options == scenario.options
        current_price == scenario.current_price
        current_pnl == calculate_payoff(current_price, options)
        scenario_price ==
            ScenarioPrice(current_price, scenario.scenario_type,
                          scenario.scenario_value)
        scenario_pnl == calculate_payoff(scenario_price, options)
        payoffs == ScanPayoffs(current_price, options)
    IN  IF payoffs = {}
        THEN [status |-> "error", error |-> "ValueError"]
        ELSE LET max_profit == SetMax(payoffs)
                 max_loss == SetMin(payoffs)
             IN  IF ZeroDivision(current_pnl, max_profit, max_loss)
                 THEN [status |-> "error", error |-> "ZeroDivisionError"]
                 ELSE
                 [status |-> "ok",
                  report |->
                    [current_price |-> current_price,
                     scenario_price |-> scenario_price,
                     current_pnl |-> Round2(current_pnl),
                     scenario_pnl |-> Round2(scenario_pnl),
                     pnl_change |-> Round2(scenario_pnl - current_pnl),
                     max_profit |-> Round2(max_profit),
                     max_loss |-> Round2(max_loss),
                     recommendations |->
                        Recommendations(current_price, options, current_pnl,
                                        max_profit, max_loss)]]

(***************************************************************************)
(* Requests.  The request model (AdjustmentScenario, OptionLeg) constrains *)
(* only the field types, so every value below passes validation.           *)
(***************************************************************************)
\* the four documented scenario types and one that is none of them
KnownScenarioTypes ==
    {"price_up", "price_down", "volatility_increase", "time_decay"}

ScenarioTypes == KnownScenarioTypes \cup {"price_sideways"}

ScenarioValues == {<<>>} \cup {<<v>> : v \in 0..MaxValue10}

OptionLegs(strikes, premiums, quantities) ==
    [type : {"call", "put"}, action : {"buy", "sell"}, strike : strikes,
     premium : premiums, quantity : quantities]

LegLists(legs, n) == UNION {[1..k -> legs] : k \in 0..n}

\* legs of well-formed positions: strikes 3.00 and 3.50, premiums 0 and 0.50
PositionLegs == OptionLegs({60, 70}, {0, 10}, {1, 2})

\* legs with a non-positive strike or quantity among them
EdgeLegs == OptionLegs({-10, 0, 70}, {10}, {-1, 0, 1})

AdjustmentScenario(prices, legLists, types, values) ==
    [current_price : prices, options : legLists, scenario_type : types,
     scenario_value : values]

\* positions of up to MaxLegs legs at every non-negative price
PositionRequests ==
    AdjustmentScenario({10 * h : h \in 0..MaxPriceH},
                       LegLists(PositionLegs, MaxLegs),
                       {"price_up"}, {<<>>})

\* every scenario type and value at every price, on at most one leg
ScenarioRequests ==
    AdjustmentScenario({10 * h : h \in (0 - MaxPriceH)..MaxPriceH},
                       LegLists(EdgeLegs, 1),
                       ScenarioTypes, ScenarioValues)

\* iron condors: two calls and two puts, interleaved, one contract each
CondorLegs(type) ==
    {leg \in OptionLegs({60, 70}, {0, 10}, {1}) : leg.type = type}

CondorLegLists ==
    {<<c1, p1, c2, p2>> : c1 \in CondorLegs("call"), p1 \in CondorLegs("put"),
                          c2 \in CondorLegs("call"), p2 \in CondorLegs("put")}

CondorRequests ==
    AdjustmentScenario({10 * h : h \in 0..MaxPriceH}, CondorLegLists,
                       {"price_up"}, {<<>>})

Requests == PositionRequests \cup ScenarioRequests \cup CondorRequests

(***************************************************************************)
(* The state machine: a request arrives, the handler answers it.           *)
(***************************************************************************)
Pending == [status |-> "pending"]

\* the scenario evaluation reads and writes neither collection
Init ==
    /\ req \in Requests
    /\ resp = Pending
    /\ strategies = <<>>
    /\ watchlist = <<>>
    /\ inserted = 0

Analyze ==
    /\ resp.status = "pending"
    /\ resp' = analyze_adjustment_scenarios(req)
    /\ UNCHANGED <<req, strategies, watchlist, inserted>>

Next == Analyze

Spec == Init /\ [][Next]_vars

(***************************************************************************)
(* The strategy store and get_roll_suggestions (server.py 287-306,         *)
(* 476-515).  A stored document keeps the fields the roll suggestions      *)
(* read; _id is the place of the insertion.                                *)
(***************************************************************************)
\* the authenticated users (get_current_user, server.py 109-120)
Users == {"u1", "u2"}

Tickers == {"AAPL"}

\* str.upper() on the texts of a leg and on the symbols
Upper(text) ==
    CASE text = "call" -> "CALL"
      [] text = "put" -> "PUT"
      [] text = "buy" -> "BUY"
      [] text = "sell" -> "SELL"
      [] text \in {"aapl", "Aapl"} -> "AAPL"
      [] text = "msft" -> "MSFT"
      [] OTHER -> text

\* the price when the quote raises: 150.0
FallbackPrice == 3000

\* quote["price"]: the multiples of 2.50, where round(price / 5) ties or is
\* whole, and the prices 0.50 above them; or the fallback
QuotePrices ==
    {50 * h + d : h \in 0..MaxQuoteH, d \in {0, 10}} \cup {FallbackPrice}

\* NewStrike without the increment of 5 away from the money
NewStrikeNearest(opt, current_price) ==
    IF opt.type = "call" /\ current_price > opt.strike
    THEN 20 * (RoundNearest(current_price, 100) * 5)
    ELSE IF opt.type = "put" /\ current_price < opt.strike
    THEN 20 * (RoundNearest(current_price, 100) * 5)
    ELSE opt.strike

\* server.py 495-499: round(current_price / 5) * 5 + 5 or - 5, in ticks
NewStrike(opt, current_price) ==
    IF opt.type = "call" /\ current_price > opt.strike
    THEN 20 * (RoundNearest(current_price, 100) * 5 + 5)
    ELSE IF opt.type = "put" /\ current_price < opt.strike
    THEN 20 * (RoundNearest(current_price, 100) * 5 - 5)
    ELSE opt.strike

\* server.py 502-507; estimated_credit_debit is
\* round((new_strike - strike) * 0.1, 2), in mills
Suggestion(opt, new_strike) ==
    [original |-> <<Upper(opt.action), Upper(opt.type), opt.strike>>,
     suggested |-> <<Upper(opt.action), Upper(opt.type), new_strike>>,
     estimated_credit_debit |-> Round2((new_strike - opt.strike) * 5)]

\* server.py 494-507
RECURSIVE SuggestionLoop(_, _, _, _)
SuggestionLoop(options, current_price, i, suggestions) ==
    IF i > Len(options) THEN suggestions
    ELSE LET opt == options[i]
             new_strike == NewStrike(opt, current_price)
         IN  SuggestionLoop(options, current_price, i + 1,
                 IF new_strike # opt.strike
                 THEN Append(suggestions, Suggestion(opt, new_strike))
                 ELSE suggestions)

\* the strategy_id of a request is a text: the 24 hex digits of the n-th
\* inserted _id, or a text that is not 24 hex digits
IdText(n) == [hex |-> TRUE, n |-> n]

MalformedId == [hex |-> FALSE, n |-> 0]

\* ObjectId(strategy_id): <<_id>>, or <<>> when it raises InvalidId
ObjectId(strategy_id) ==
    IF strategy_id.hex THEN <<strategy_id.n>> ELSE <<>>

\* nothing catches InvalidId: the request ends in an error
InvalidId == [status |-> 500, error |-> "InvalidId"]

NotFound == [status |-> 404, detail |-> "Strategy not found"]

\* StrategyQuery without the user_id of the requesting user
StrategyQueryAnyUser(doc, strategy_id, user_id) ==
    doc.id = ObjectId(strategy_id)[1]

\* the query {"_id": ObjectId(strategy_id), "user_id": user["id"]}
StrategyQuery(doc, strategy_id, user_id) ==
    /\ doc.id = ObjectId(strategy_id)[1]
    /\ doc.user_id = user_id

\* find(query): the matching documents, in order; <<>> is None of find_one
FindStrategy(strategy_id, user_id) ==
    SelectSeq(strategies, LAMBDA doc : StrategyQuery(doc, strategy_id, user_id))

\* server.py 477-515
get_roll_suggestions(strategy_id, user_id, current_price) ==
    LET found == FindStrategy(strategy_id, user_id)
    IN  IF ObjectId(strategy_id) = <<>> THEN InvalidId
        ELSE IF found = <<>> THEN NotFound
        ELSE [status |-> 200,
              strategy_id |-> strategy_id,
              ticker |-> found[1].ticker,
              current_price |-> current_price,
              roll_suggestions |->
                  SuggestionLoop(found[1].options, current_price, 1, <<>>)]

\* legs of stored strategies: strikes 5 and 10, the latter sold only
RollLegs ==
    OptionLegs({100}, {10}, {1})
        \cup {leg \in OptionLegs({200}, {10}, {1}) : leg.action = "sell"}

RollLegLists == LegLists(RollLegs, 2)

NoRequest == [op |-> "none"]

InitStore ==
    /\ req = NoRequest
    /\ resp = Pending
    /\ strategies = <<>>
    /\ watchlist = <<>>
    /\ inserted = 0

\* server.py 288-306, for the strategies of the given leg lists; the
\* document keeps the fields the other handlers read or set
create_strategy(legLists) ==
    \E user \in Users, ticker \in Tickers, options \in legLists :
        /\ inserted < MaxStrategies
        /\ inserted' = inserted + 1
        /\ strategies' = Append(strategies,
                                [id |-> inserted + 1, user_id |-> user,
                                 name |-> "n1", ticker |-> ticker,
                                 options |-> options,
                                 updated_at |-> "at_creation"])
        /\ req' = [op |-> "create_strategy", user |-> user]
        /\ resp' = [status |-> 200, id |-> inserted + 1]
        /\ UNCHANGED watchlist

CreateStrategy == create_strategy(RollLegLists)

\* ids of documents that were or may yet be inserted, and one never given
WellFormedIds == {IdText(n) : n \in 1..(MaxStrategies + 1)}

\* server.py 476-515, for the given ids and quoted prices
roll_options(ids, prices) ==
    \E user \in Users, strategy_id \in ids, current_price \in prices :
        /\ req' = [op |-> "roll_options", user |-> user,
                   strategy_id |-> strategy_id]
        /\ resp' = get_roll_suggestions(strategy_id, user, current_price)
        /\ UNCHANGED <<strategies, watchlist, inserted>>

GetRollSuggestions == roll_options(WellFormedIds, QuotePrices)

NextRoll == CreateStrategy \/ GetRollSuggestions

SpecRoll == InitStore /\ [][NextRoll]_vars

(***************************************************************************)
(* get_strategy, update_strategy, delete_strategy (server.py 321-348).     *)
(***************************************************************************)
\* server.py 322-328
get_strategy(strategy_id, user_id) ==
    LET found == FindStrategy(strategy_id, user_id)
    IN  IF ObjectId(strategy_id) = <<>> THEN InvalidId
        ELSE IF found = <<>> THEN NotFound
        ELSE [status |-> 200, strategy |-> found[1]]

\* StrategyUpdate: the optional name (the other optional fields are set the
\* same way); <<>> is None
StrategyUpdates == [name : {<<>>, <<"n2">>}]

\* {"$set": update_data}: the fields that are not None, and updated_at
SetFields(doc, update) ==
    [doc EXCEPT !.name = IF update.name = <<>> THEN @ ELSE update.name[1],
                !.updated_at = "at_update"]

\* update_one(query, {"$set": ...}): the first matching document is set
RECURSIVE UpdateOne(_, _, _, _)
UpdateOne(docs, strategy_id, user_id, update) ==
    IF docs = <<>> THEN <<>>
    ELSE IF StrategyQuery(Head(docs), strategy_id, user_id)
    THEN <<SetFields(Head(docs), update)>> \o Tail(docs)
    ELSE <<Head(docs)>> \o UpdateOne(Tail(docs), strategy_id, user_id, update)

\* server.py 331-340: the response and the collection after it
update_strategy(strategy_id, update, user_id) ==
    IF ObjectId(strategy_id) = <<>>
    THEN [response |-> InvalidId, strategies |-> strategies]
    ELSE LET matched_count ==
                 IF FindStrategy(strategy_id, user_id) = <<>> THEN 0 ELSE 1
         IN  [response |-> IF matched_count = 0 THEN NotFound
                           ELSE [status |-> 200,
                                 message |-> "Strategy updated"],
              strategies |-> UpdateOne(strategies, strategy_id, user_id,
                                       update)]

\* delete_one(query): the collection without its first matching document
RECURSIVE DeleteOneStrategy(_, _, _)
DeleteOneStrategy(docs, strategy_id, user_id) ==
    IF docs = <<>> THEN <<>>
    ELSE IF StrategyQuery(Head(docs), strategy_id, user_id) THEN Tail(docs)
    ELSE <<Head(docs)>> \o DeleteOneStrategy(Tail(docs), strategy_id, user_id)

\* server.py 343-348: the response and the collection after it
delete_strategy(strategy_id, user_id) ==
    IF ObjectId(strategy_id) = <<>>
    THEN [response |-> InvalidId, strategies |-> strategies]
    ELSE LET after == DeleteOneStrategy(strategies, strategy_id, user_id)
             deleted_count == Len(strategies) - Len(after)
         IN  [response |-> IF deleted_count = 0 THEN NotFound
                           ELSE [status |-> 200,
                                 message |-> "Strategy deleted"],
              strategies |-> after]

\* the ids of the requests: well-formed ones and a malformed one
RequestIds == WellFormedIds \cup {MalformedId}

\* strategies of no leg or of one sold call struck at 5
OwnedLegLists ==
    LegLists({leg \in OptionLegs({100}, {10}, {1}) :
                 leg.type = "call" /\ leg.action = "sell"}, 1)

CreateOwnedStrategy == create_strategy(OwnedLegLists)

GetStrategy ==
    \E user \in Users, strategy_id \in RequestIds :
        /\ req' = [op |-> "get_strategy", user |-> user,
                   strategy_id |-> strategy_id]
        /\ resp' = get_strategy(strategy_id, user)
        /\ UNCHANGED <<strategies, watchlist, inserted>>

UpdateStrategy ==
    \E user \in Users, strategy_id \in RequestIds, update \in StrategyUpdates :
        LET done == update_strategy(strategy_id, update, user)
        IN  /\ req' = [op |-> "update_strategy", user |-> user,
                       strategy_id |-> strategy_id]
            /\ resp' = done.response
            /\ strategies' = done.strategies
            /\ UNCHANGED <<watchlist, inserted>>

DeleteStrategy ==
    \E user \in Users, strategy_id \in RequestIds :
        LET done == delete_strategy(strategy_id, user)
        IN  /\ req' = [op |-> "delete_strategy", user |-> user,
                       strategy_id |-> strategy_id]
            /\ resp' = done.response
            /\ strategies' = done.strategies
            /\ UNCHANGED <<watchlist, inserted>>

\* roll suggestions at a quote of 5.50
RollOwnedStrategy == roll_options(RequestIds, {110})

NextStrategies ==
    \/ CreateOwnedStrategy
    \/ GetStrategy
    \/ UpdateStrategy
    \/ DeleteStrategy
    \/ RollOwnedStrategy

SpecStrategies == InitStore /\ [][NextStrategies]_vars

(***************************************************************************)
(* The watchlist (server.py 530-544).  Each handler runs its collection    *)
(* calls without an await between them, on the one event loop of the one   *)
(* server process, so a handler is one step.                               *)
(***************************************************************************)
\* the symbols of the requests, as typed
Symbols == {"AAPL", "aapl", "Aapl", "MSFT", "msft"}

\* find({"user_id": ..., "symbol": ...}): the matching documents, in order
FindWatched(user_id, symbol) ==
    SelectSeq(watchlist,
              LAMBDA doc : doc.user_id = user_id /\ doc.symbol = symbol)

\* add_to_watchlist looking for the symbol as typed
add_to_watchlist_as_typed(user_id, symbol) ==
    IF FindWatched(user_id, symbol) # <<>>
    THEN [response |-> [status |-> 400,
                        detail |-> "Symbol already in watchlist"],
          watchlist |-> watchlist]
    ELSE [response |-> [status |-> 200, message |-> "Added to watchlist"],
          watchlist |-> Append(watchlist, [user_id |-> user_id,
                                           symbol |-> Upper(symbol)])]

\* server.py 531-537: the response and the collection after it
add_to_watchlist(user_id, symbol) ==
    IF FindWatched(user_id, Upper(symbol)) # <<>>
    THEN [response |-> [status |-> 400,
                        detail |-> "Symbol already in watchlist"],
          watchlist |-> watchlist]
    ELSE [response |-> [status |-> 200, message |-> "Added to watchlist"],
          watchlist |-> Append(watchlist, [user_id |-> user_id,
                                           symbol |-> Upper(symbol)])]

\* delete_one: the collection without its first matching document
RECURSIVE DeleteOne(_, _, _)
DeleteOne(docs, user_id, symbol) ==
    IF docs = <<>> THEN <<>>
    ELSE IF Head(docs).user_id = user_id /\ Head(docs).symbol = symbol
    THEN Tail(docs)
    ELSE <<Head(docs)>> \o DeleteOne(Tail(docs), user_id, symbol)

\* server.py 540-544: the response and the collection after it
remove_from_watchlist(user_id, symbol) ==
    LET after == DeleteOne(watchlist, user_id, Upper(symbol))
        deleted_count == Len(watchlist) - Len(after)
    IN  IF deleted_count = 0
        THEN [response |-> [status |-> 404,
                            detail |-> "Symbol not in watchlist"],
              watchlist |-> after]
        ELSE [response |-> [status |-> 200,
                            message |-> "Removed from watchlist"],
              watchlist |-> after]

AddToWatchlist ==
    \E user \in Users, symbol \in Symbols :
        LET done == add_to_watchlist(user, symbol)
        IN  /\ req' = [op |-> "add_to_watchlist", user |-> user,
                       symbol |-> symbol]
            /\ resp' = done.response
            /\ watchlist' = done.watchlist
            /\ UNCHANGED <<strategies, inserted>>

RemoveFromWatchlist ==
    \E user \in Users, symbol \in Symbols :
        LET done == remove_from_watchlist(user, symbol)
        IN  /\ req' = [op |-> "remove_from_watchlist", user |-> user,
                       symbol |-> symbol]
            /\ resp' = done.response
            /\ watchlist' = done.watchlist
            /\ UNCHANGED <<strategies, inserted>>

NextWatchlist == AddToWatchlist \/ RemoveFromWatchlist

SpecWatchlist == InitStore /\ [][NextWatchlist]_vars

(***************************************************************************)
(* Vocabulary of the properties.                                           *)
(***************************************************************************)
Answered == resp.status # "pending"

Reported == resp.status = "ok"

\* the payoffs the handler computes before it rounds them for the report
CurrentPnl == calculate_payoff(req.current_price, req.options)

HasRec(type, urgency) ==
    \E i \in 1..Len(resp.report.recommendations) :
        /\ resp.report.recommendations[i].type = type
        /\ resp.report.recommendations[i].urgency = urgency

(***************************************************************************)
(* C1.  The payoff is the sum of the per-leg values.                       *)
(***************************************************************************)
\* the stated value of one leg, in mills, by the four cases of the leg
StatedLegValue(price, leg) ==
    LET strike == leg.strike
        inTheMoney == IF leg.type = "call" THEN price > strike
                      ELSE strike > price
        distance == IF leg.type = "call" THEN price - strike
                    ELSE strike - price
        intrinsic == IF inTheMoney THEN distance ELSE 0
        perShare == CASE leg.action = "buy" -> intrinsic - leg.premium
                      [] leg.action = "sell" -> leg.premium - intrinsic
    IN  perShare * leg.quantity * 100 * 50

RECURSIVE StatedSum(_, _, _)
\* the sum of the stated values of the legs at the indices in idx
StatedSum(price, legs, idx) ==
    IF idx = {} THEN 0
    ELSE LET i == CHOOSE j \in idx : TRUE
         IN  StatedLegValue(price, legs[i]) + StatedSum(price, legs, idx \ {i})

StatedPayoff(price, legs) == StatedSum(price, legs, DOMAIN legs)

\* C1: at every price calculate_payoff of the request's legs is the sum over
\* the legs of (intrinsic - premium) * quantity * 100 for a bought leg and
\* (premium - intrinsic) * quantity * 100 for a sold leg, and it is 0 for an
\* empty leg list: so it is at the current price of every request, and in a
\* report at the scanned prices and in the current and scenario P&L.
C1_PayoffIsSumOverLegs ==
    /\ calculate_payoff(req.current_price, req.options)
          = StatedPayoff(req.current_price, req.options)
    /\ req.options = <<>> => calculate_payoff(req.current_price, req.options) = 0
    /\ Reported =>
          /\ \A p \in ScanRange(req.current_price) :
                calculate_payoff(20 * p, req.options)
                   = StatedPayoff(20 * p, req.options)
          /\ resp.report.current_pnl =
                Round2(StatedPayoff(req.current_price, req.options))
          /\ resp.report.scenario_pnl =
                Round2(StatedPayoff(resp.report.scenario_price, req.options))
          /\ req.options = <<>> =>
                /\ resp.report.current_pnl = 0
                /\ resp.report.scenario_pnl = 0
                /\ resp.report.max_profit = 0
                /\ resp.report.max_loss = 0

\* a report on a bought call and a sold put of two contracts, with a loss
C1_Witness ==
    /\ Reported
    /\ Len(req.options) = 2
    /\ req.options[1].type = "call" /\ req.options[1].action = "buy"
    /\ req.options[2].type = "put" /\ req.options[2].action = "sell"
    /\ req.options[2].quantity = 2
    /\ resp.report.current_pnl < 0

(***************************************************************************)
(* C2.  No error for a positive price and a known scenario type.           *)
(***************************************************************************)
\* C2: a request with current_price > 0 and one of the four scenario types is
\* always answered with a report, never with an error.
C2_ValidRequestNeverRaises ==
    (Answered /\ req.current_price > 0
        /\ req.scenario_type \in KnownScenarioTypes)
    => Reported

(***************************************************************************)
(* C3.  The current P&L lies between the reported extremes.                *)
(***************************************************************************)
\* current_price lies between the lowest and the highest scanned price
PriceWithinScan ==
    /\ ScanRange(req.current_price) # {}
    /\ 20 * SetMin(ScanRange(req.current_price)) <= req.current_price
    /\ req.current_price <= 20 * SetMax(ScanRange(req.current_price))

\* C3: in every report, max_profit >= current_pnl >= max_loss whenever
\* current_price lies within the scanned range, integer or not.
C3_CurrentPnlWithinExtremes ==
    (Reported /\ PriceWithinScan)
    => /\ resp.report.max_profit >= resp.report.current_pnl
       /\ resp.report.current_pnl >= resp.report.max_loss

(***************************************************************************)
(* C4.  An unknown scenario type is an error.                              *)
(***************************************************************************)
\* C4: a request whose scenario_type is none of the four known types is
\* answered with an error and no report.
C4_UnknownScenarioTypeRejected ==
    (Answered /\ req.scenario_type \notin KnownScenarioTypes)
    => resp.status = "error"

(***************************************************************************)
(* C5.  A non-positive price is an error.                                  *)
(***************************************************************************)
\* C5: a request with current_price <= 0 is always answered with an error and
\* never with a report, whatever its legs and scenario type.
C5_NonPositivePriceIsError ==
    (Answered /\ req.current_price <= 0)
    => (resp.status = "error" /\ "report" \notin DOMAIN resp)

\* an error answer to a negative price with a leg and a price_down scenario
C5_Witness ==
    /\ resp.status = "error"
    /\ req.current_price < 0
    /\ Len(req.options) = 1
    /\ req.options[1].strike > 0 /\ req.options[1].quantity > 0
    /\ req.scenario_type = "price_down"

(***************************************************************************)
(* C6.  A leg with a non-positive strike or quantity is an error.          *)
(***************************************************************************)
HasInvalidLeg ==
    \E i \in 1..Len(req.options) :
        req.options[i].strike <= 0 \/ req.options[i].quantity <= 0

\* C6: a request with a leg whose strike or quantity is <= 0 is answered with
\* an error; no report is computed from such a leg.
C6_InvalidLegRejected ==
    (Answered /\ HasInvalidLeg) => resp.status = "error"

(***************************************************************************)
(* C7.  The scenario price of price_up and price_down.                     *)
(***************************************************************************)
\* the value the claim uses, in tenths: the supplied one, 0.10 when none is
StatedValue(scenario_value) ==
    IF scenario_value = <<>> THEN 1 ELSE scenario_value[1]

\* C7: for price_up the reported scenario_price is current_price * (1 + value)
\* and for price_down current_price * (1 - value), value being the supplied
\* scenario_value (0 included) and 0.10 only when none is supplied.
C7_ScenarioPriceUsesSuppliedValue ==
    /\ (Reported /\ req.scenario_type = "price_up")
       => 10 * resp.report.scenario_price =
             req.current_price * (10 + StatedValue(req.scenario_value))
    /\ (Reported /\ req.scenario_type = "price_down")
       => 10 * resp.report.scenario_price =
             req.current_price * (10 - StatedValue(req.scenario_value))

(***************************************************************************)
(* C8.  volatility_increase and time_decay leave the price alone.          *)
(***************************************************************************)
\* C8: for volatility_increase and time_decay, whatever scenario_value is
\* supplied, scenario_price = current_price, scenario_pnl = current_pnl and
\* pnl_change = 0.
C8_VolatilityAndTimeArePassThrough ==
    (Reported /\ req.scenario_type \in {"volatility_increase", "time_decay"})
    => /\ resp.report.scenario_price = req.current_price
       /\ resp.report.scenario_pnl = resp.report.current_pnl
       /\ resp.report.pnl_change = 0

\* a time_decay report with a supplied value on a leg that is in the money
C8_Witness ==
    /\ Reported
    /\ req.scenario_type = "time_decay"
    /\ req.scenario_value = <<2>>
    /\ Len(req.options) = 1
    /\ Intrinsic(req.current_price, req.options[1]) > 0
    /\ req.options[1].strike > 0 /\ req.options[1].quantity > 0

(***************************************************************************)
(* C9.  The scanned prices.                                                *)
(***************************************************************************)
\* the integers p with floor(0.5 * current_price) <= p < ceil(1.5 * current_price)
\* (current_price in ticks, p in dollars)
StatedScan(current_price) ==
    {p \in (0 - 2 * MaxPriceH)..(2 * MaxPriceH) :
        /\ 40 * p + 39 >= current_price
        /\ 40 * p < 3 * current_price}

StatedScanPayoffs == {calculate_payoff(20 * p, req.options) :
                        p \in StatedScan(req.current_price)}

\* C9: max_profit and max_loss are the maximum and the minimum of the payoff
\* over exactly the integers p with floor(0.5 * current_price) <= p <
\* ceil(1.5 * current_price).
C9_ExtremesOverFloorToCeil ==
    Reported
    => /\ StatedScanPayoffs # {}
       /\ resp.report.max_profit = Round2(SetMax(StatedScanPayoffs))
       /\ resp.report.max_loss = Round2(SetMin(StatedScanPayoffs))

(***************************************************************************)
(* C10.  The loss-percent rule.                                            *)
(***************************************************************************)
\* the minimum of the scanned payoffs, before the report rounds it
MaxLoss == SetMin(ScanPayoffs(req.current_price, req.options))

\* loss_percent = |current_pnl| / |max_loss| (divisor 1 dollar when max_loss
\* is 0) exceeds num / den, on the amounts the rule is given
LossRatioOver(num, den) ==
    LET loss == IF CurrentPnl < 0 THEN 0 - CurrentPnl ELSE CurrentPnl
        worst == IF MaxLoss < 0 THEN 0 - MaxLoss ELSE MaxLoss
    IN  IF worst = 0 THEN den * loss > num * 1000
        ELSE den * loss > num * worst

\* C10: when current_pnl < 0 the report holds a close/high recommendation iff
\* loss_percent > 50%, a roll/medium one iff 25% < loss_percent <= 50%, and
\* the request never ends in a division fault, max_loss = 0 included.
C10_LossPercentRule ==
    /\ (Reported /\ CurrentPnl < 0)
       => /\ HasRec("close", "high") <=> LossRatioOver(1, 2)
          /\ HasRec("roll", "medium")
                <=> (LossRatioOver(1, 4) /\ ~LossRatioOver(1, 2))
    /\ (Answered /\ CurrentPnl < 0 /\ ScanRange(req.current_price) # {})
       => Reported

\* a losing position whose scanned payoffs are never below 0: max_loss = 0
C10_Witness ==
    /\ Reported
    /\ CurrentPnl < 0
    /\ MaxLoss = 0 /\ resp.report.max_loss = 0
    /\ HasRec("close", "high")

\* a losing position between a quarter and a half of max_loss: roll, no close
C10_RollWitness ==
    /\ Reported
    /\ CurrentPnl < 0
    /\ HasRec("roll", "medium")
    /\ ~HasRec("close", "high")

\* a losing position at no more than a quarter of max_loss: neither
C10_NeitherWitness ==
    /\ Reported
    /\ CurrentPnl < 0
    /\ ~HasRec("roll", "medium")
    /\ ~HasRec("close", "high")

(***************************************************************************)
(* Vocabulary of the shape rules.                                          *)
(***************************************************************************)
LegIdx(type) == {i \in DOMAIN req.options : req.options[i].type = type}

LegCount(type) == Cardinality(LegIdx(type))

\* the places of the adjust recommendations in the reported list
AdjustIdx ==
    {i \in DOMAIN resp.report.recommendations :
        resp.report.recommendations[i].type = "adjust"}

\* the adjust recommendations are medium ones suggesting the strikes lo, hi
AdjustsSuggest(lo, hi) ==
    \A i \in AdjustIdx :
        /\ resp.report.recommendations[i].urgency = "medium"
        /\ resp.report.recommendations[i].strikes = <<lo, hi>>

\* round(current_price): the nearest whole dollar, ties to even
RoundedPrice ==
    LET below == CHOOSE k \in (0 - MaxPriceH)..MaxPriceH :
                    20 * k <= req.current_price /\ req.current_price < 20 * (k + 1)
        rest == req.current_price - 20 * below
    IN  IF rest < 10 THEN below
        ELSE IF rest > 10 THEN below + 1
        ELSE IF below % 2 = 0 THEN below ELSE below + 1

\* int(current_price) of a price >= 0: its whole dollars
WholeDollars ==
    CHOOSE k \in 0..MaxPriceH :
        20 * k <= req.current_price /\ req.current_price < 20 * (k + 1)

(***************************************************************************)
(* C11.  The call-spread rule.                                             *)
(***************************************************************************)
LosingCallSpread ==
    Reported /\ CurrentPnl < 0 /\ LegCount("call") = 2 /\ LegCount("put") = 0

AboveCallStrikes ==
    \A i \in LegIdx("call") : req.current_price > req.options[i].strike

\* C11 as stated: with current_pnl < 0 on exactly two calls and no put, an
\* adjust/medium roll-up recommendation is emitted iff current_price is above
\* the higher call strike, suggesting round(current_price) and
\* round(current_price) + 5.
C11_RollUpSuggestsRoundedPrice ==
    LosingCallSpread
    => /\ Cardinality(AdjustIdx) = (IF AboveCallStrikes THEN 1 ELSE 0)
       /\ AdjustsSuggest(RoundedPrice, RoundedPrice + 5)

\* C11 as amended: the same, suggesting int(current_price) and
\* int(current_price) + 5, the price truncated to whole dollars.
C11_RollUpSuggestsTruncatedPrice ==
    LosingCallSpread
    => /\ Cardinality(AdjustIdx) = (IF AboveCallStrikes THEN 1 ELSE 0)
       /\ AdjustsSuggest(WholeDollars, WholeDollars + 5)

\* a losing call spread at 5.50, above both strikes: 5/10 is suggested, not 6/11
C11_Witness ==
    /\ LosingCallSpread
    /\ AboveCallStrikes
    /\ req.current_price = 110
    /\ Cardinality(AdjustIdx) = 1
    /\ RoundedPrice # WholeDollars

\* a losing call spread between its strikes: no adjust recommendation
C11_BetweenStrikesWitness ==
    /\ LosingCallSpread
    /\ ~AboveCallStrikes
    /\ \E i \in LegIdx("call") : req.current_price > req.options[i].strike
    /\ AdjustIdx = {}

(***************************************************************************)
(* C12.  The put-spread rule.                                              *)
(***************************************************************************)
LosingPutSpread ==
    Reported /\ CurrentPnl < 0 /\ LegCount("put") = 2 /\ LegCount("call") = 0

BelowPutStrikes ==
    \A i \in LegIdx("put") : req.current_price < req.options[i].strike

\* C12 as stated: with current_pnl < 0 on exactly two puts and no call, an
\* adjust/medium roll-down recommendation is emitted iff current_price is
\* below the lower put strike, suggesting round(current_price) - 5 and
\* round(current_price).
C12_RollDownSuggestsRoundedPrice ==
    LosingPutSpread
    => /\ Cardinality(AdjustIdx) = (IF BelowPutStrikes THEN 1 ELSE 0)
       /\ AdjustsSuggest(RoundedPrice - 5, RoundedPrice)

\* C12 as amended: the same, suggesting int(current_price) - 5 and
\* int(current_price), the price truncated to whole dollars.
C12_RollDownSuggestsTruncatedPrice ==
    LosingPutSpread
    => /\ Cardinality(AdjustIdx) = (IF BelowPutStrikes THEN 1 ELSE 0)
       /\ AdjustsSuggest(WholeDollars - 5, WholeDollars)

\* a losing put spread at 1.50, below both strikes: -4/1 is suggested, not -3/2
C12_Witness ==
    /\ LosingPutSpread
    /\ BelowPutStrikes
    /\ req.current_price = 30
    /\ Cardinality(AdjustIdx) = 1
    /\ RoundedPrice # WholeDollars

(***************************************************************************)
(* C13.  The iron-condor rule.                                             *)
(***************************************************************************)
IronCondor == LegCount("call") = 2 /\ LegCount("put") = 2

\* C13: a position of exactly two calls and two puts reports exactly one
\* adjust recommendation when current_pnl < 0, whatever its strikes and the
\* price, next to the close or roll recommendation of the loss-percent rule
\* when that rule fires; with current_pnl >= 0 it reports no adjust.
C13_IronCondorAdjustsOnce ==
    (Reported /\ IronCondor)
    => IF CurrentPnl < 0
       THEN /\ Cardinality(AdjustIdx) = 1
            /\ \A i \in AdjustIdx :
                  resp.report.recommendations[i].urgency = "medium"
            /\ HasRec("close", "high") <=> LossRatioOver(1, 2)
            /\ HasRec("roll", "medium")
                  <=> (LossRatioOver(1, 4) /\ ~LossRatioOver(1, 2))
       ELSE AdjustIdx = {}

\* a losing condor priced between its strikes, closed and adjusted
C13_Witness ==
    /\ Reported /\ IronCondor
    /\ CurrentPnl < 0
    /\ HasRec("close", "high")
    /\ Cardinality(AdjustIdx) = 1
    /\ \E i \in LegIdx("call") : req.current_price <= req.options[i].strike
    /\ \E i \in LegIdx("put") : req.current_price >= req.options[i].strike

\* a condor that is not losing: no adjust
C13_NotLosingWitness ==
    /\ Reported /\ IronCondor
    /\ CurrentPnl >= 0
    /\ AdjustIdx = {}

(***************************************************************************)
(* C14.  The profit-percent rule.                                          *)
(***************************************************************************)
\* the maximum of the scanned payoffs, before the report rounds it
MaxProfit == SetMax(ScanPayoffs(req.current_price, req.options))

\* profit_percent = current_pnl / max_profit (0 when max_profit <= 0)
\* exceeds num / den
ProfitRatioOver(num, den) ==
    IF MaxProfit <= 0 THEN FALSE
    ELSE den * CurrentPnl > num * MaxProfit

\* C14: when current_pnl > 0 the report holds a take_profit/low
\* recommendation iff profit_percent > 75%, a partial_close/low one iff
\* 50% < profit_percent <= 75%, neither otherwise, and the request never ends
\* in a division fault, max_profit <= 0 included.
C14_ProfitPercentRule ==
    /\ (Reported /\ CurrentPnl > 0)
       => /\ HasRec("take_profit", "low") <=> ProfitRatioOver(3, 4)
          /\ HasRec("partial_close", "low")
                <=> (ProfitRatioOver(1, 2) /\ ~ProfitRatioOver(3, 4))
          /\ \A i \in DOMAIN resp.report.recommendations :
                resp.report.recommendations[i].type
                    \in {"take_profit", "partial_close"}
                => resp.report.recommendations[i].urgency = "low"
    /\ (Answered /\ CurrentPnl > 0 /\ ScanRange(req.current_price) # {})
       => Reported

\* a winning position whose scanned payoffs are never above 0
C14_Witness ==
    /\ Reported
    /\ CurrentPnl > 0
    /\ MaxProfit <= 0
    /\ ~HasRec("take_profit", "low")
    /\ ~HasRec("partial_close", "low")

\* a winning position above three quarters of max_profit
C14_TakeProfitWitness ==
    /\ Reported
    /\ CurrentPnl > 0
    /\ HasRec("take_profit", "low")
    /\ ~HasRec("partial_close", "low")

\* a winning position between a half and three quarters of max_profit
C14_PartialCloseWitness ==
    /\ Reported
    /\ CurrentPnl > 0
    /\ HasRec("partial_close", "low")
    /\ ~HasRec("take_profit", "low")

(***************************************************************************)
(* C15, C16.  The time-decay entry and the order of the list.              *)
(***************************************************************************)
Recs == resp.report.recommendations

RecIdx(types) == {i \in DOMAIN Recs : Recs[i].type \in types}

\* C15: every report holds exactly one info recommendation, of low urgency,
\* and it is the last entry of the list, whatever the sign of current_pnl.
C15_InfoOnceAndLast ==
    Reported
    => /\ RecIdx({"info"}) = {Len(Recs)}
       /\ Len(Recs) >= 1
       /\ Recs[Len(Recs)].urgency = "low"

\* a losing position with two entries before the time-decay one
C15_Witness ==
    /\ Reported
    /\ CurrentPnl < 0
    /\ Len(Recs) = 3
    /\ Recs[3].type = "info"

\* a winning position with one entry before the time-decay one
C15_WinningWitness ==
    /\ Reported
    /\ CurrentPnl > 0
    /\ Len(Recs) = 2
    /\ Recs[2].type = "info"

\* the place of an entry's rule in the order of evaluation
RuleOrder(type) ==
    CASE type \in {"close", "roll"} -> 1
      [] type = "adjust" -> 2
      [] type \in {"take_profit", "partial_close"} -> 3
      [] type = "info" -> 4

\* C16: the entries of every reported list are in rule order: close or roll,
\* then adjust, then take_profit or partial_close, then info; no entry of a
\* later rule precedes an entry of an earlier rule.
C16_ListInRuleOrder ==
    Reported
    => \A i, j \in DOMAIN Recs :
          i < j => RuleOrder(Recs[i].type) <= RuleOrder(Recs[j].type)

\* a list with an entry of the loss rule, then of a shape rule, then info
C16_Witness ==
    /\ Reported
    /\ Len(Recs) = 3
    /\ Recs[1].type \in {"close", "roll"}
    /\ Recs[2].type = "adjust"
    /\ LegCount("put") = 0

\* a list with an entry of the profit rule, then info
C16_ProfitWitness ==
    /\ Reported
    /\ Len(Recs) = 2
    /\ Recs[1].type \in {"take_profit", "partial_close"}
    /\ Recs[2].type = "info"

(***************************************************************************)
(* C18.  The payoff of a single call.                                      *)
(***************************************************************************)
SingleCall ==
    /\ Len(req.options) = 1
    /\ req.options[1].type = "call"
    /\ req.options[1].quantity >= 1

\* the prices the payoff is compared at: the half dollars, the requested
\* price and the scanned whole dollars
ComparedPrices ==
    {10 * h : h \in 0..MaxPriceH} \cup {req.current_price}
        \cup {20 * p : p \in ScanRange(req.current_price)}

\* premium * quantity * 100, in mills
PremiumPaid == req.options[1].premium * req.options[1].quantity * 100 * 50

\* C18: for a position of one call leg with quantity >= 1, a bought call's
\* payoff is non-decreasing in price and never below -premium * quantity * 100;
\* a sold call's payoff is non-increasing in price and never above
\* premium * quantity * 100.
C18_SingleCallMonotoneAndBounded ==
    (Answered /\ SingleCall)
    => \A p, q \in ComparedPrices :
          IF req.options[1].action = "buy"
          THEN /\ p <= q => calculate_payoff(p, req.options)
                               <= calculate_payoff(q, req.options)
               /\ calculate_payoff(p, req.options) >= 0 - PremiumPaid
          ELSE /\ p <= q => calculate_payoff(p, req.options)
                               >= calculate_payoff(q, req.options)
               /\ calculate_payoff(p, req.options) <= PremiumPaid

\* a bought call reported with its floor as max_loss and more as max_profit
C18_Witness ==
    /\ Reported /\ SingleCall
    /\ req.options[1].action = "buy"
    /\ req.options[1].premium > 0
    /\ MaxLoss = 0 - PremiumPaid
    /\ MaxProfit > MaxLoss

\* a sold call reported with its cap as max_profit and less as max_loss
C18_SoldWitness ==
    /\ Reported /\ SingleCall
    /\ req.options[1].action = "sell"
    /\ req.options[1].premium > 0
    /\ MaxProfit = PremiumPaid
    /\ MaxLoss < MaxProfit

(***************************************************************************)
(* C19.  The size of the list.                                             *)
(***************************************************************************)
\* C19: a reported list has at most 3 entries when current_pnl < 0 (at most
\* one of close/roll, at most one adjust, then info), at most 2 when
\* current_pnl > 0, exactly the info entry when current_pnl = 0; entries of
\* the loss or shape rules never stand with entries of the profit rule, and a
\* high-urgency entry stands only in the list of a losing position.
C19_ListSizeBySign ==
    Reported
    => /\ CurrentPnl < 0
          => /\ Len(Recs) <= 3
             /\ Cardinality(RecIdx({"close", "roll"})) <= 1
             /\ Cardinality(RecIdx({"adjust"})) <= 1
             /\ RecIdx({"take_profit", "partial_close"}) = {}
             /\ Recs[Len(Recs)].type = "info"
       /\ CurrentPnl > 0
          => /\ Len(Recs) <= 2
             /\ RecIdx({"close", "roll", "adjust"}) = {}
       /\ CurrentPnl = 0 => (Len(Recs) = 1 /\ Recs[1].type = "info")
       /\ (\E i \in DOMAIN Recs : Recs[i].urgency = "high") => CurrentPnl < 0

\* a losing position over half of max_loss whose shape rule fires: 3 entries
C19_Witness ==
    /\ Reported
    /\ CurrentPnl < 0
    /\ Len(Recs) = 3
    /\ Recs[1].urgency = "high"
    /\ LossRatioOver(1, 4)

\* a position with legs at break-even: the info entry alone
C19_BreakEvenWitness ==
    /\ Reported
    /\ CurrentPnl = 0
    /\ Len(req.options) >= 1
    /\ Len(Recs) = 1

(***************************************************************************)
(* C17.  The roll suggestions.                                             *)
(***************************************************************************)
RollAnswered == req.op = "roll_options" /\ resp.status = 200

\* the legs of the strategy the suggestions were asked for
RolledLegs ==
    LET doc == CHOOSE d \in {strategies[i] : i \in DOMAIN strategies} :
                  d.id = req.strategy_id.n
    IN  doc.options

\* a call struck below the price or a put struck above it
InTheMoney(leg) ==
    \/ leg.type = "call" /\ leg.strike < resp.current_price
    \/ leg.type = "put" /\ leg.strike > resp.current_price

\* the number of in-the-money legs among the first i legs
RECURSIVE InTheMoneyUpTo(_)
InTheMoneyUpTo(i) ==
    IF i = 0 THEN 0
    ELSE InTheMoneyUpTo(i - 1) + (IF InTheMoney(RolledLegs[i]) THEN 1 ELSE 0)

\* C17: the suggestions are, in leg order, one for each leg that is a call
\* struck below current_price or a put struck above it and none for another
\* leg; each suggested strike is a multiple of 5 strictly above current_price
\* for a call and strictly below it for a put, and differs from the leg's
\* strike.
C17_OneSuggestionPerInTheMoneyLeg ==
    RollAnswered
    => /\ Len(resp.roll_suggestions) = InTheMoneyUpTo(Len(RolledLegs))
       /\ \A i \in DOMAIN RolledLegs :
             InTheMoney(RolledLegs[i])
             => LET leg == RolledLegs[i]
                    sug == resp.roll_suggestions[InTheMoneyUpTo(i)]
                    strike == sug.suggested[3]
                IN  /\ sug.original[2] = (IF leg.type = "call" THEN "CALL"
                                          ELSE "PUT")
                    /\ sug.original[1] = (IF leg.action = "buy" THEN "BUY"
                                          ELSE "SELL")
                    /\ sug.original[3] = leg.strike
                    /\ sug.suggested[1] = sug.original[1]
                    /\ sug.suggested[2] = sug.original[2]
                    /\ strike % 100 = 0
                    /\ leg.type = "call" => strike > resp.current_price
                    /\ leg.type = "put" => strike < resp.current_price
                    /\ strike # leg.strike

\* a put struck at 5 and a call struck at 5, quoted at 7.50 (7.5 / 5 is a
\* tie of round): the call alone gets a suggestion, of strike 15
C17_Witness ==
    /\ RollAnswered
    /\ Len(RolledLegs) = 2
    /\ RolledLegs[1].type = "put" /\ RolledLegs[1].strike = 100
    /\ RolledLegs[2].type = "call" /\ RolledLegs[2].strike = 100
    /\ resp.current_price = 150
    /\ Len(resp.roll_suggestions) = 1
    /\ resp.roll_suggestions[1].suggested[3] = 300

\* two in-the-money legs: a sold call struck at 5 and a bought call struck
\* at 5, quoted at 5.50; two suggestions in leg order, both of strike 10
C17_TwoWitness ==
    /\ RollAnswered
    /\ Len(RolledLegs) = 2
    /\ resp.current_price = 110
    /\ Len(resp.roll_suggestions) = 2
    /\ resp.roll_suggestions[1].original = <<"SELL", "CALL", 100>>
    /\ resp.roll_suggestions[2].original = <<"BUY", "CALL", 100>>
    /\ resp.roll_suggestions[1].suggested[3] = 200

(***************************************************************************)
(* C20.  The watchlist holds a symbol once.                                *)
(***************************************************************************)
\* the spellings of one symbol
Spellings == {{"AAPL", "aapl", "Aapl"}, {"MSFT", "msft"}}

SameSymbol(a, b) == \E spelling \in Spellings : a \in spelling /\ b \in spelling

\* the user's watchlist holds the symbol, whatever the letter case
Watched(docs, user, symbol) ==
    \E i \in DOMAIN docs :
        docs[i].user_id = user /\ SameSymbol(docs[i].symbol, symbol)

\* every stored symbol is upper-cased and is held once per user
HeldOnce ==
    \A i, j \in DOMAIN watchlist :
        /\ watchlist[i].symbol \in {"AAPL", "MSFT"}
        /\ (i # j /\ watchlist[i].user_id = watchlist[j].user_id)
           => ~SameSymbol(watchlist[i].symbol, watchlist[j].symbol)

\* a step that adds a symbol the user holds is answered 400, one that removes
\* a symbol the user does not hold is answered 404, and neither changes the
\* watchlist; no other step is answered 400 or 404
RejectedUnchanged ==
    LET held == Watched(watchlist, req'.user, req'.symbol)
    IN  /\ req'.op = "add_to_watchlist"
           => /\ held <=> resp'.status = 400
              /\ held => watchlist' = watchlist
              /\ resp'.status \in {200, 400}
        /\ req'.op = "remove_from_watchlist"
           => /\ ~held <=> resp'.status = 404
              /\ ~held => watchlist' = watchlist
              /\ resp'.status \in {200, 404}

\* C20: after any sequence of add_to_watchlist and remove_from_watchlist
\* requests of any users, each user's watchlist holds an upper-cased symbol at
\* most once; adding a symbol already held, in any letter case, is answered
\* 400 and removing one not held is answered 404, the watchlist unchanged.
C20_WatchlistHoldsSymbolOnce ==
    []HeldOnce /\ [][RejectedUnchanged]_vars

\* AAPL held by both users, and u1's adding of aapl rejected
C20_Witness ==
    /\ req = [op |-> "add_to_watchlist", user |-> "u1", symbol |-> "aapl"]
    /\ resp.status = 400
    /\ Watched(watchlist, "u1", "AAPL")
    /\ Watched(watchlist, "u2", "AAPL")
    /\ Len(watchlist) >= 3

\* a removal of a symbol another user holds, rejected
C20_RemoveWitness ==
    /\ req = [op |-> "remove_from_watchlist", user |-> "u1", symbol |-> "msft"]
    /\ resp.status = 404
    /\ Watched(watchlist, "u2", "MSFT")

(***************************************************************************)
(* C21.  A strategy is its creator's alone.                                *)
(***************************************************************************)
StrategyOps ==
    {"get_strategy", "update_strategy", "delete_strategy", "roll_options"}

\* the stored strategy of the given _id, as a set of at most one document
Stored(docs, n) == {doc \in {docs[i] : i \in DOMAIN docs} : doc.id = n}

\* the user created a strategy of that _id and it is still stored
CreatedBy(docs, n, user) == \E doc \in Stored(docs, n) : doc.user_id = user

\* a step serving a create request stores one more strategy, the requesting
\* user's; no step changes the user or the _id of a stored strategy
CreatorKept ==
    /\ \A i \in DOMAIN strategies' :
          \/ \E j \in DOMAIN strategies :
                /\ strategies[j].id = strategies'[i].id
                /\ strategies[j].user_id = strategies'[i].user_id
          \/ /\ req'.op = "create_strategy"
             /\ strategies'[i].user_id = req'.user
             /\ strategies'[i].id = resp'.id
             /\ Stored(strategies, resp'.id) = {}
    /\ \A i, j \in DOMAIN strategies' :
          strategies'[i].id = strategies'[j].id => i = j

\* a step serving a get, update, delete or roll-options request for a
\* well-formed id that is not of a stored strategy of the requesting user is
\* answered 404, and it leaves the stored strategies as they were; so does
\* one for a malformed id
OthersRejected ==
    req'.op \in StrategyOps
    => /\ (req'.strategy_id.hex
           /\ ~CreatedBy(strategies, req'.strategy_id.n, req'.user))
          => (resp'.status = 404 /\ strategies' = strategies)
       /\ ~req'.strategy_id.hex
          => (resp'.status # 200 /\ strategies' = strategies)

C21_RollWitness ==
    /\ req.op = "roll_options"
    /\ req.strategy_id.hex
    /\ resp.status = 404
    /\ \E doc \in Stored(strategies, req.strategy_id.n) :
          doc.user_id # req.user

\* an update by the creator of a strategy that was deleted: 404
C21_DeletedWitness ==
    /\ req.op = "update_strategy"
    /\ req.strategy_id.hex
    /\ req.strategy_id.n <= inserted
    /\ Stored(strategies, req.strategy_id.n) = {}
    /\ resp.status = 404

\* a get of an id never given: 404
C21_NeverGivenWitness ==
    /\ req.op = "get_strategy"
    /\ req.strategy_id.hex
    /\ req.strategy_id.n > inserted
    /\ strategies # <<>>
    /\ resp.status = 404

\* the creator's get of the stored strategy: answered with it
C21_CreatorWitness ==
    /\ req.op = "get_strategy"
    /\ resp.status = 200
    /\ resp.strategy.user_id = req.user
    /\ resp.strategy \in Stored(strategies, req.strategy_id.n)

====
